---- MODULE Spec2Model ----
(***************************************************************************)
(* LIFO page replacement simulator (src/script.js).                        *)
(*                                                                         *)
(* The model follows the script: the global `state` object, the handlers   *)
(* wired in setupEventListeners / setupKeyboardShortcuts, the interval     *)
(* timers of auto-play and the core routine buildStateHistory.             *)
(*                                                                         *)
(* JavaScript arrays are modelled as TLA+ sequences; every index that the  *)
(* script stores or compares (indexOf results, newPageIndex, currentStep)  *)
(* keeps its 0-based JavaScript value.  Arrays are reference values in     *)
(* JavaScript, so the core routine runs over an explicit heap of arrays:   *)
(* `[...a]` allocates a copy, push / pop / a[i] = v update in place.       *)
(***************************************************************************)
EXTENDS Integers, Sequences, FiniteSets, TLC

\* the fields of the `state` object
VARIABLES frames, referenceString, stateHistory, currentStep, isLoaded,
          isPlaying, playInterval, speed, totalHits, totalFaults
\* the page: the text of the two input fields, the live interval timers,
\* the disabled flag of the five playback buttons, the text of the five
\* statistics elements and the alert shown last
VARIABLES framesInput, refStringInput, timers, disabled, stats, alert
\* history variable: the inputs and the outcome of an earlier load
VARIABLES memo

stateVars == <<frames, referenceString, stateHistory, currentStep, isLoaded,
               isPlaying, playInterval, speed, totalHits, totalFaults>>
pageVars == <<framesInput, refStringInput, timers, disabled, stats, alert>>
vars == <<stateVars, pageVars, memo>>

(***************************************************************************)
(* Bounds of the model.                                                    *)
(***************************************************************************)
\* page numbers typed by the user are 0 .. MaxPage
MaxPage == 2
\* typed reference strings hold 1 .. MaxLen page numbers
MaxLen == 4
\* typed frame counts are 0 .. MaxFrames, of which 1 .. MaxFrames are valid
MaxFrames == 3
\* interval timers alive at the same time
MaxTimers == 2

(***************************************************************************)
(* JavaScript values.                                                      *)
(***************************************************************************)
\* null: an empty frame slot, "no replaced page", "no timer"
null == -1
\* undefined: the value of pop() on an empty array
undefined == -2
Digit == <<"0", "1", "2", "3", "4", "5", "6", "7", "8", "9">>

IsDigit(c) == \E d \in 1..10 : Digit[d] = c

DigitValue(c) == (CHOOSE d \in 1..10 : Digit[d] = c) - 1

IsSpace(c) == c = " "

\* IndexOf that finds the last index holding x
IndexOfLast(arr, x) ==
    IF \E k \in 1..Len(arr) : arr[k] = x
    THEN (CHOOSE k \in 1..Len(arr) :
              arr[k] = x /\ \A j \in (k + 1)..Len(arr) : arr[j] # x) - 1
    ELSE -1

\* Array.prototype.indexOf: the first 0-based index holding x, or -1
IndexOf(arr, x) ==
    IF \E k \in 1..Len(arr) : arr[k] = x
    THEN (CHOOSE k \in 1..Len(arr) :
              arr[k] = x /\ \A j \in 1..(k - 1) : arr[j] # x) - 1
    ELSE -1

\* ArraySet that writes v into the slot idx and every slot after it
ArraySetFill(arr, idx, v) ==
    [j \in 1..Len(arr) |-> IF j >= idx + 1 THEN v ELSE arr[j]]

\* arr[idx] = v for an index stored by the script; an index of -1 names a
\* property, not an element, and leaves the elements as they are
ArraySet(arr, idx, v) ==
    IF idx \in 0..(Len(arr) - 1) THEN [arr EXCEPT ![idx + 1] = v] ELSE arr

\* FilledArray with one slot too many
FilledArrayOneMore(n) == [k \in 1..(n + 1) |-> null]

\* new Array(n).fill(null)
FilledArray(n) == [k \in 1..n |-> null]

(***************************************************************************)
(* buildStateHistory, over a heap of arrays.  A heap is a sequence of      *)
(* arrays and a reference is an index into it.                             *)
(***************************************************************************)

\* Spread without the copy: the same array under the same reference
SpreadAlias(heap, r) == [heap |-> heap, ref |-> r]

\* [...a]: a new array holding the elements of the array at reference r
Spread(heap, r) == [heap |-> Append(heap, heap[r]), ref |-> Len(heap) + 1]

\* Pop taking the first element (a.shift()): first in, first out
PopBottom(arr) ==
    IF Len(arr) = 0
    THEN [value |-> undefined, rest |-> arr]
    ELSE [value |-> arr[1], rest |-> Tail(arr)]

\* a.pop(): removes and returns the last element (undefined when empty)
Pop(arr) ==
    IF Len(arr) = 0
    THEN [value |-> undefined, rest |-> arr]
    ELSE [value |-> arr[Len(arr)], rest |-> SubSeq(arr, 1, Len(arr) - 1)]

\* Push at the front (a.unshift(v))
PushFront(arr, v) == <<v>> \o arr

\* a.push(v)
Push(arr, v) == Append(arr, v)

\* NewStepData numbering the steps from 0
NewStepDataZeroBased(i, page, heap, framesRef, stackRef) ==
    LET f == Spread(heap, framesRef)
        s == Spread(f.heap, stackRef)
    IN  [heap |-> s.heap,
         stepData |-> [step |-> i,
                       page |-> page,
                       frames |-> f.ref,
                       stack |-> s.ref,
                       isHit |-> FALSE,
                       isFault |-> FALSE,
                       replacedPage |-> null,
                       replacedIndex |-> -1,
                       newPageIndex |-> -1]]

\* the stepData literal at the top of the loop body
NewStepData(i, page, heap, framesRef, stackRef) ==
    LET f == Spread(heap, framesRef)
        s == Spread(f.heap, stackRef)
    IN  [heap |-> s.heap,
         stepData |-> [step |-> i + 1,
                       page |-> page,
                       frames |-> f.ref,
                       stack |-> s.ref,
                       isHit |-> FALSE,
                       isFault |-> FALSE,
                       replacedPage |-> null,
                       replacedIndex |-> -1,
                       newPageIndex |-> -1]]

\* PageIndex searching from slot 1 on (frames.indexOf(page, 1))
PageIndexFromOne(framesArr, page) ==
    IF Len(framesArr) = 0 THEN -1
    ELSE LET at == IndexOf(Tail(framesArr), page)
         IN  IF at = -1 THEN -1 ELSE at + 1

\* const pageIndex = frames.indexOf(page)
PageIndex(framesArr, page) == IndexOf(framesArr, page)

\* EmptyIndex taking the last empty slot (frames.lastIndexOf(null))
LastEmptyIndex(framesArr) ==
    IF \E k \in 1..Len(framesArr) : framesArr[k] = null
    THEN (CHOOSE k \in 1..Len(framesArr) :
              framesArr[k] = null /\ \A j \in (k + 1)..Len(framesArr) : framesArr[j] # null) - 1
    ELSE -1

\* const emptyIndex = frames.indexOf(null)
EmptyIndex(framesArr) == IndexOf(framesArr, null)

\* PageHit that moves the hit page to the top of the stack, as a
\* least-recently-used policy would, and records the result
PageHitMoveToTop(acc, stepData) ==
    LET old == acc.heap[acc.stack]
        kept == SelectSeq(old, LAMBDA x : x # stepData.page)
        heap1 == [acc.heap EXCEPT ![acc.stack] = Append(kept, stepData.page)]
        s == Spread(heap1, acc.stack)
    IN  [acc |-> [acc EXCEPT !.totalHits = @ + 1, !.heap = s.heap],
         stepData |-> [stepData EXCEPT !.isHit = TRUE, !.stack = s.ref]]

\* the PAGE HIT branch
PageHit(acc, stepData) ==
    [acc |-> [acc EXCEPT !.totalHits = @ + 1],
     stepData |-> [stepData EXCEPT !.isHit = TRUE]]

\* LoadIntoEmpty that stores the page without pushing it on the stack
LoadIntoEmptyNoPush(acc, stepData, page, emptyIndex) ==
    LET heap1 == [acc.heap EXCEPT
                     ![acc.frames] = ArraySet(@, emptyIndex, page)]
    IN  [acc |-> [acc EXCEPT !.heap = heap1],
         stepData |-> [stepData EXCEPT !.newPageIndex = emptyIndex]]

\* the "empty frame available" branch
LoadIntoEmpty(acc, stepData, page, emptyIndex) ==
    LET heap1 == [acc.heap EXCEPT
                     ![acc.frames] = ArraySet(@, emptyIndex, page),
                     ![acc.stack] = Push(@, page)]
    IN  [acc |-> [acc EXCEPT !.heap = heap1],
         stepData |-> [stepData EXCEPT !.newPageIndex = emptyIndex]]

\* ReplaceTop that reads the top of the stack without removing it
ReplaceTopNoPop(acc, stepData, page) ==
    LET old == acc.heap[acc.stack]
        pageToReplace == IF Len(old) = 0 THEN undefined ELSE old[Len(old)]
        replaceIndex == IndexOf(acc.heap[acc.frames], pageToReplace)
        heap1 == [acc.heap EXCEPT
                     ![acc.frames] = ArraySet(@, replaceIndex, page),
                     ![acc.stack] = Push(old, page)]
    IN  [acc |-> [acc EXCEPT !.heap = heap1],
         stepData |-> [stepData EXCEPT !.replacedPage = pageToReplace,
                                       !.replacedIndex = replaceIndex,
                                       !.newPageIndex = replaceIndex]]

\* ReplaceTop that takes the bottom of the stack, the page loaded first
ReplaceOldest(acc, stepData, page) ==
    LET old == acc.heap[acc.stack]
        pageToReplace == IF Len(old) = 0 THEN undefined ELSE old[1]
        replaceIndex == IndexOf(acc.heap[acc.frames], pageToReplace)
        heap1 == [acc.heap EXCEPT
                     ![acc.frames] = ArraySet(@, replaceIndex, page),
                     ![acc.stack] = Push(IF Len(old) = 0 THEN old ELSE Tail(old),
                                         page)]
    IN  [acc |-> [acc EXCEPT !.heap = heap1],
         stepData |-> [stepData EXCEPT !.replacedPage = pageToReplace,
                                       !.replacedIndex = replaceIndex,
                                       !.newPageIndex = replaceIndex]]

\* the "no empty frame" branch: replace the top of the stack
ReplaceTop(acc, stepData, page) ==
    LET popped == Pop(acc.heap[acc.stack])
        pageToReplace == popped.value
        replaceIndex == IndexOf(acc.heap[acc.frames], pageToReplace)
        heap1 == [acc.heap EXCEPT
                     ![acc.frames] = ArraySet(@, replaceIndex, page),
                     ![acc.stack] = Push(popped.rest, page)]
    IN  [acc |-> [acc EXCEPT !.heap = heap1],
         stepData |-> [stepData EXCEPT !.replacedPage = pageToReplace,
                                       !.replacedIndex = replaceIndex,
                                       !.newPageIndex = replaceIndex]]

\* the PAGE FAULT branch
PageFault(acc, stepData, page) ==
    LET sd1 == [stepData EXCEPT !.isFault = TRUE]
        acc1 == [acc EXCEPT !.totalFaults = @ + 1]
        emptyIndex == EmptyIndex(acc1.heap[acc1.frames])
        r == IF emptyIndex # -1
             THEN LoadIntoEmpty(acc1, sd1, page, emptyIndex)
             ELSE ReplaceTop(acc1, sd1, page)
        f == Spread(r.acc.heap, r.acc.frames)
        s == Spread(f.heap, r.acc.stack)
    IN  [acc |-> [r.acc EXCEPT !.heap = s.heap],
         stepData |-> [r.stepData EXCEPT !.frames = f.ref, !.stack = s.ref]]

\* one iteration of the for loop, i the 0-based loop index
LoopBody(acc, i) ==
    LET page == acc.referenceString[i + 1]
        n == NewStepData(i, page, acc.heap, acc.frames, acc.stack)
        acc0 == [acc EXCEPT !.heap = n.heap]
        pageIndex == PageIndex(acc0.heap[acc0.frames], page)
        r == IF pageIndex # -1
             THEN PageHit(acc0, n.stepData)
             ELSE PageFault(acc0, n.stepData, page)
    IN  [r.acc EXCEPT !.stateHistory = Append(@, r.stepData)]

RECURSIVE ForLoop(_, _)
ForLoop(acc, i) ==
    IF i < Len(acc.referenceString) THEN ForLoop(LoopBody(acc, i), i + 1) ELSE acc

\* BuildStart that keeps counting from the totals of the last build
BuildStartKeepTotals(st) ==
    [referenceString |-> st.referenceString,
     stateHistory |-> <<>>,
     totalHits |-> st.totalHits,
     totalFaults |-> st.totalFaults,
     heap |-> <<FilledArray(st.frames), <<>>>>,
     frames |-> 1,
     stack |-> 2]

\* the assignments before the loop: st holds the fields of `state` the
\* routine reads and writes
BuildStart(st) ==
    [referenceString |-> st.referenceString,
     stateHistory |-> <<>>,
     totalHits |-> 0,
     totalFaults |-> 0,
     heap |-> <<FilledArray(st.frames), <<>>>>,
     frames |-> 1,
     stack |-> 2]

\* what a reader of state.stateHistory sees: each record with the arrays
\* its frames and stack fields refer to
Deref(heap, stepData) ==
    [stepData EXCEPT !.frames = heap[stepData.frames],
                     !.stack = heap[stepData.stack]]

BuildStateHistory(st) ==
    LET acc == ForLoop(BuildStart(st), 0)
    IN  [stateHistory |-> [k \in 1..Len(acc.stateHistory) |->
                               Deref(acc.heap, acc.stateHistory[k])],
         totalHits |-> acc.totalHits,
         totalFaults |-> acc.totalFaults]

(***************************************************************************)
(* Text of the two input fields: a sequence of one-character strings.      *)
(***************************************************************************)

\* String.prototype.trim
RECURSIVE TrimStart(_)
TrimStart(text) ==
    IF Len(text) > 0 /\ IsSpace(text[1]) THEN TrimStart(Tail(text)) ELSE text

RECURSIVE TrimEnd(_)
TrimEnd(text) ==
    IF Len(text) > 0 /\ IsSpace(text[Len(text)])
    THEN TrimEnd(SubSeq(text, 1, Len(text) - 1))
    ELSE text

Trim(text) == TrimEnd(TrimStart(text))

\* the longest prefix of text made of digits
RECURSIVE LeadingDigits(_)
LeadingDigits(text) ==
    IF Len(text) > 0 /\ IsDigit(text[1])
    THEN <<text[1]>> \o LeadingDigits(Tail(text))
    ELSE <<>>

\* the decimal value of a sequence of digits
RECURSIVE DecimalValue(_)
DecimalValue(ds) ==
    IF Len(ds) = 0 THEN 0
    ELSE 10 * DecimalValue(SubSeq(ds, 1, Len(ds) - 1)) + DigitValue(ds[Len(ds)])

\* parseInt: leading white space is skipped, an optional sign and the
\* leading digits are read, what follows them is ignored; NaN without digits
ParseInt(text) ==
    LET t == TrimStart(text)
        signed == Len(t) > 0 /\ t[1] \in {"-", "+"}
        ds == LeadingDigits(IF signed THEN Tail(t) ELSE t)
        v == DecimalValue(ds)
    IN  [isNaN |-> Len(ds) = 0,
         value |-> IF Len(ds) = 0 THEN 0
                   ELSE IF signed /\ t[1] = "-" THEN 0 - v ELSE v]

\* a character matched by the class [\s,]
IsSeparator(c) == IsSpace(c) \/ c = ","

\* text.split(/[\s,]+/): the pieces between maximal runs of separators,
\* the empty pieces before a leading and after a trailing run included
RECURSIVE SplitFrom(_, _, _, _)
SplitFrom(text, k, piece, pieces) ==
    IF k > Len(text) THEN Append(pieces, piece)
    ELSE IF IsSeparator(text[k])
         THEN IF k > 1 /\ IsSeparator(text[k - 1])
              THEN SplitFrom(text, k + 1, piece, pieces)
              ELSE SplitFrom(text, k + 1, <<>>, Append(pieces, piece))
         ELSE SplitFrom(text, k + 1, Append(piece, text[k]), pieces)

Split(text) == SplitFrom(text, 1, <<>>, <<>>)

\* .map(s => s.trim()).filter(s => s !== '')
RECURSIVE NonEmptyTrimmed(_)
NonEmptyTrimmed(pieces) ==
    IF Len(pieces) = 0 THEN <<>>
    ELSE LET t == Trim(pieces[1])
         IN  (IF Len(t) = 0 THEN <<>> ELSE <<t>>) \o NonEmptyTrimmed(Tail(pieces))

\* /^\d+$/.test(token)
IsNumeric(token) == Len(token) > 0 /\ \A k \in 1..Len(token) : IsDigit(token[k])

\* Validate without the lower bound on the frame count
ValidateNoLowerBound(framesText, refText) ==
    LET framesValue == ParseInt(framesText)
        refString == Trim(refText)
        pages == NonEmptyTrimmed(Split(refString))
        rejected(about) ==
            [ok |-> FALSE, about |-> about, frames |-> 0, pages |-> <<>>]
    IN  IF framesValue.isNaN \/ framesValue.value > 10
        THEN rejected("frames")
        ELSE IF Len(refString) = 0
        THEN rejected("refString")
        ELSE IF \E k \in 1..Len(pages) : ~IsNumeric(pages[k])
        THEN rejected("token")
        ELSE [ok |-> TRUE,
              about |-> "loaded",
              frames |-> framesValue.value,
              pages |-> [k \in 1..Len(pages) |-> ParseInt(pages[k]).value]]

\* the outcome of the validation in loadAndValidate: ok with the values to
\* store, or not ok (an error alert and an early return)
Validate(framesText, refText) ==
    LET framesValue == ParseInt(framesText)
        refString == Trim(refText)
        pages == NonEmptyTrimmed(Split(refString))
        rejected(about) ==
            [ok |-> FALSE, about |-> about, frames |-> 0, pages |-> <<>>]
    IN  IF framesValue.isNaN \/ framesValue.value < 1 \/ framesValue.value > 10
        THEN rejected("frames")
        ELSE IF Len(refString) = 0
        THEN rejected("refString")
        ELSE IF \E k \in 1..Len(pages) : ~IsNumeric(pages[k])
        THEN rejected("token")
        ELSE [ok |-> TRUE,
              about |-> "loaded",
              frames |-> framesValue.value,
              pages |-> [k \in 1..Len(pages) |-> ParseInt(pages[k]).value]]

(***************************************************************************)
(* What the user types into the two input fields.                          *)
(***************************************************************************)

\* the decimal text of a natural number
RECURSIVE ToText(_)
ToText(n) ==
    IF n < 10 THEN <<Digit[n + 1]>>
    ELSE ToText(n \div 10) \o <<Digit[(n % 10) + 1]>>

\* pages.join(' ')
RECURSIVE JoinPages(_)
JoinPages(pages) ==
    IF Len(pages) = 0 THEN <<>>
    ELSE IF Len(pages) = 1 THEN ToText(pages[1])
    ELSE ToText(pages[1]) \o <<" ">> \o JoinPages(Tail(pages))

\* the reference strings of 1 .. maxLen pages out of 0 .. maxPage
PageStrings(maxPage, maxLen) == UNION {[1..n -> 0..maxPage] : n \in 1..maxLen}

\* loadExampleString: '7 0 1 2 0 3 0 4' with '3' frames
ExamplePages == <<7, 0, 1, 2, 0, 3, 0, 4>>
ExampleRefText == JoinPages(ExamplePages)
ExampleFramesText == <<"3">>

\* texts that are blank, hold no page, hold a non-numeric token, or use
\* commas and repeated separators
OddRefTexts ==
    {<<>>, <<" ">>, <<",">>, <<"x">>, <<"1", " ", "x">>,
     <<" ", "1", ",", " ", "0", ",">>}

\* texts that are no number, only start with one, or are out of 1 .. 10
OddFramesTexts == {<<"1", "1">>, <<>>, <<"x">>, <<"2", "x">>}

RefTexts == {JoinPages(r) : r \in PageStrings(MaxPage, MaxLen)} \cup OddRefTexts
FramesTexts == {ToText(n) : n \in 0..MaxFrames} \cup OddFramesTexts

\* the texts typed between loads during playback
UiRefTexts == {<<>>, <<",">>, <<"x">>, JoinPages(<<1>>), JoinPages(<<0, 1, 0>>)}
UiFramesTexts == {<<"0">>, <<"1">>, <<"2">>}

\* the data-speed values of the speed buttons
Speeds == {150, 400, 700}

Buttons == {"startBtn", "prevBtn", "nextBtn", "playBtn", "pauseBtn"}

\* setInterval returns an id that differs from every live timer's: here
\* the smallest one
FreshTimer(alive) == CHOOSE t \in 1..(MaxTimers + 1) :
                         t \notin alive /\ \A u \in 1..(t - 1) : u \in alive

(***************************************************************************)
(* renderStats and showAlert.                                              *)
(***************************************************************************)

\* the counting loop of renderStats: i the 0-based loop index
RECURSIVE CountLoop(_, _, _, _)
CountLoop(history, c, i, counts) ==
    IF i <= c /\ i < Len(history)
    THEN CountLoop(history, c, i + 1,
                   [hits |-> counts.hits + (IF history[i + 1].isHit THEN 1 ELSE 0),
                    faults |-> counts.faults + (IF history[i + 1].isFault THEN 1 ELSE 0)])
    ELSE counts

\* ((hits / total) * 100).toFixed(1): the percentage rounded to one decimal
ToFixed1(hits, total) ==
    LET tenths == (2000 * hits + total) \div (2 * total)
    IN  ToText(tenths \div 10) \o <<".">> \o ToText(tenths % 10)

\* HitRatioText without the test for an empty prefix: 0 / 0 is NaN
HitRatioTextUnguarded(hits, total) ==
    (IF total = 0 THEN <<"N", "a", "N">> ELSE ToFixed1(hits, total)) \o <<"%">>

\* the hit ratio as renderStats writes it, for hits out of total steps
HitRatioText(hits, total) ==
    (IF total > 0 THEN ToFixed1(hits, total) ELSE <<"0">>) \o <<"%">>

\* RenderStats that shows the totals of the whole history instead of
\* counting the records up to the cursor
RenderStatsFromTotals(c, history) ==
    [totalHits |-> totalHits,
     totalFaults |-> totalFaults,
     currentStep |-> c + 1,
     totalSteps |-> Len(history),
     hitRatio |-> HitRatioText(totalHits, totalHits + totalFaults)]

\* renderStats for the cursor c: the text of the five statistics elements
RenderStats(c, history) ==
    LET counts == CountLoop(history, c, 0, [hits |-> 0, faults |-> 0])
    IN  [totalHits |-> counts.hits,
         totalFaults |-> counts.faults,
         currentStep |-> c + 1,
         totalSteps |-> Len(history),
         hitRatio |-> HitRatioText(counts.hits, counts.hits + counts.faults)]

\* renderCurrentStep for the cursor c: nothing is rendered when c is no
\* index of the history
RenderCurrentStep(shown, c, history) ==
    IF c < 0 \/ c >= Len(history) THEN shown ELSE RenderStats(c, history)

\* the statistics as resetSimulator writes them
ResetStats ==
    [totalHits |-> 0, totalFaults |-> 0, currentStep |-> 0, totalSteps |-> 0,
     hitRatio |-> <<"0", "%">>]

\* showAlert(message, type): the alert shown last
ShowAlert(about, type) == [about |-> about, type |-> type]
NoAlert == ShowAlert("none", "none")

(***************************************************************************)
(* Initial state: the `state` literal; the playback buttons disabled and   *)
(* the statistics at zero, as resetSimulator leaves them; no alert; the    *)
(* input fields hold what the user typed first.                            *)
(***************************************************************************)
InitState ==
    /\ frames = 3
    /\ referenceString = <<>>
    /\ stateHistory = <<>>
    /\ currentStep = -1
    /\ isLoaded = FALSE
    /\ isPlaying = FALSE
    /\ playInterval = null
    /\ speed = 400
    /\ totalHits = 0
    /\ totalFaults = 0
    /\ timers = {}
    /\ disabled = [b \in Buttons |-> TRUE]
    /\ stats = ResetStats
    /\ alert = NoAlert
    /\ memo = <<>>

Init == InitState /\ framesInput \in UiFramesTexts /\ refStringInput \in UiRefTexts

InitEngine == InitState /\ framesInput \in FramesTexts /\ refStringInput \in RefTexts

\* updateNavigationButtons, for the cursor c and a history of n records
NavigationButtons(d, c, n) ==
    [d EXCEPT !.prevBtn = c <= 0, !.nextBtn = c >= n - 1]

(***************************************************************************)
(* Handlers.                                                               *)
(***************************************************************************)
LoadExampleString ==
    /\ refStringInput' = ExampleRefText
    /\ framesInput' = ExampleFramesText
    /\ alert' = ShowAlert("example", "info")
    /\ UNCHANGED <<stateVars, timers, disabled, stats>>

\* loadAndValidate that stores the frame count before it validates the
\* reference string
LoadAndValidateStoreEarly ==
    LET v == Validate(framesInput, refStringInput)
        built == BuildStateHistory([frames |-> v.frames,
                                    referenceString |-> v.pages,
                                    stateHistory |-> stateHistory,
                                    totalHits |-> totalHits,
                                    totalFaults |-> totalFaults])
    IN  IF ~v.ok
        THEN /\ alert' = ShowAlert(v.about, "error")
             /\ frames' = IF v.about = "frames" THEN frames
                          ELSE ParseInt(framesInput).value
             /\ UNCHANGED <<referenceString, stateHistory, currentStep,
                            isLoaded, isPlaying, playInterval, speed,
                            totalHits, totalFaults, framesInput,
                            refStringInput, timers, disabled, stats>>
        ELSE /\ frames' = v.frames
             /\ referenceString' = v.pages
             /\ isLoaded' = TRUE
             /\ stateHistory' = built.stateHistory
             /\ totalHits' = built.totalHits
             /\ totalFaults' = built.totalFaults
             /\ stats' = RenderStats(currentStep, built.stateHistory)
             /\ disabled' = [startBtn |-> FALSE, prevBtn |-> TRUE,
                             nextBtn |-> TRUE, playBtn |-> TRUE,
                             pauseBtn |-> TRUE]
             /\ alert' = ShowAlert(v.about, "success")
             /\ UNCHANGED <<currentStep, isPlaying, playInterval, speed,
                            framesInput, refStringInput, timers>>

LoadAndValidate ==
    LET v == Validate(framesInput, refStringInput)
        built == BuildStateHistory([frames |-> v.frames,
                                    referenceString |-> v.pages,
                                    stateHistory |-> stateHistory,
                                    totalHits |-> totalHits,
                                    totalFaults |-> totalFaults])
    IN  IF ~v.ok
        THEN /\ alert' = ShowAlert(v.about, "error")
             /\ UNCHANGED <<stateVars, framesInput, refStringInput, timers,
                            disabled, stats>>
        ELSE /\ frames' = v.frames
             /\ referenceString' = v.pages
             /\ isLoaded' = TRUE
             /\ stateHistory' = built.stateHistory
             /\ totalHits' = built.totalHits
             /\ totalFaults' = built.totalFaults
             /\ stats' = RenderStats(currentStep, built.stateHistory)
             /\ disabled' = [startBtn |-> FALSE, prevBtn |-> TRUE,
                             nextBtn |-> TRUE, playBtn |-> TRUE,
                             pauseBtn |-> TRUE]
             /\ alert' = ShowAlert(v.about, "success")
             /\ UNCHANGED <<currentStep, isPlaying, playInterval, speed,
                            framesInput, refStringInput, timers>>

PauseAutoPlay ==
    /\ isPlaying' = FALSE
    /\ timers' = IF playInterval # null THEN timers \ {playInterval} ELSE timers
    /\ playInterval' = null
    /\ disabled' = NavigationButtons(
                       [disabled EXCEPT !.playBtn = FALSE, !.pauseBtn = TRUE],
                       currentStep, Len(stateHistory))
    /\ UNCHANGED <<frames, referenceString, stateHistory, currentStep,
                   isLoaded, speed, totalHits, totalFaults,
                   framesInput, refStringInput, stats, alert>>

ResetSimulator ==
    /\ isPlaying' = FALSE
    /\ timers' = IF playInterval # null THEN timers \ {playInterval} ELSE timers
    /\ playInterval' = null
    /\ referenceString' = <<>>
    /\ stateHistory' = <<>>
    /\ currentStep' = -1
    /\ isLoaded' = FALSE
    /\ totalHits' = 0
    /\ totalFaults' = 0
    /\ refStringInput' = <<>>
    /\ framesInput' = <<"3">>
    /\ stats' = ResetStats
    /\ disabled' = [b \in Buttons |-> TRUE]
    /\ alert' = ShowAlert("reset", "info")
    /\ UNCHANGED <<frames, speed>>

StartSimulation ==
    IF ~isLoaded
    THEN /\ alert' = ShowAlert("notLoaded", "error")
         /\ UNCHANGED <<stateVars, framesInput, refStringInput, timers,
                        disabled, stats>>
    ELSE /\ currentStep' = 0
         /\ disabled' = [startBtn |-> TRUE, prevBtn |-> TRUE,
                         nextBtn |-> Len(stateHistory) <= 1,
                         playBtn |-> FALSE, pauseBtn |-> TRUE]
         /\ stats' = RenderCurrentStep(stats, 0, stateHistory)
         /\ UNCHANGED <<frames, referenceString, stateHistory, isLoaded,
                        isPlaying, playInterval, speed, totalHits,
                        totalFaults, framesInput, refStringInput, timers,
                        alert>>

\* nextStep that moves the cursor to the last step at once
NextStepToEnd ==
    IF currentStep >= Len(stateHistory) - 1
    THEN UNCHANGED <<stateVars, pageVars>>
    ELSE /\ currentStep' = Len(stateHistory) - 1
         /\ disabled' = NavigationButtons(disabled, Len(stateHistory) - 1,
                                          Len(stateHistory))
         /\ stats' = RenderCurrentStep(stats, Len(stateHistory) - 1, stateHistory)
         /\ UNCHANGED <<frames, referenceString, stateHistory, isLoaded,
                        isPlaying, playInterval, speed, totalHits,
                        totalFaults, framesInput, refStringInput, timers,
                        alert>>

NextStep ==
    IF currentStep >= Len(stateHistory) - 1
    THEN UNCHANGED <<stateVars, pageVars>>
    ELSE /\ currentStep' = currentStep + 1
         /\ disabled' = NavigationButtons(disabled, currentStep + 1,
                                          Len(stateHistory))
         /\ stats' = RenderCurrentStep(stats, currentStep + 1, stateHistory)
         /\ UNCHANGED <<frames, referenceString, stateHistory, isLoaded,
                        isPlaying, playInterval, speed, totalHits,
                        totalFaults, framesInput, refStringInput, timers,
                        alert>>

\* previousStep that drops the records after the cursor
PreviousStepTruncating ==
    IF currentStep <= 0
    THEN UNCHANGED <<stateVars, pageVars>>
    ELSE /\ currentStep' = currentStep - 1
         /\ stateHistory' = SubSeq(stateHistory, 1, currentStep)
         /\ disabled' = NavigationButtons(disabled, currentStep - 1,
                                          Len(stateHistory))
         /\ stats' = RenderCurrentStep(stats, currentStep - 1, stateHistory)
         /\ UNCHANGED <<frames, referenceString, isLoaded,
                        isPlaying, playInterval, speed, totalHits,
                        totalFaults, framesInput, refStringInput, timers,
                        alert>>

PreviousStep ==
    IF currentStep <= 0
    THEN UNCHANGED <<stateVars, pageVars>>
    ELSE /\ currentStep' = currentStep - 1
         /\ disabled' = NavigationButtons(disabled, currentStep - 1,
                                          Len(stateHistory))
         /\ stats' = RenderCurrentStep(stats, currentStep - 1, stateHistory)
         /\ UNCHANGED <<frames, referenceString, stateHistory, isLoaded,
                        isPlaying, playInterval, speed, totalHits,
                        totalFaults, framesInput, refStringInput, timers,
                        alert>>

StartAutoPlay ==
    /\ Cardinality(timers) < MaxTimers
    /\ currentStep' = IF currentStep >= Len(stateHistory) - 1
                      THEN -1 ELSE currentStep
    /\ isPlaying' = TRUE
    /\ disabled' = [disabled EXCEPT !.playBtn = TRUE, !.pauseBtn = FALSE,
                                    !.prevBtn = TRUE, !.nextBtn = TRUE]
    /\ playInterval' = FreshTimer(timers)
    /\ timers' = timers \cup {FreshTimer(timers)}
    /\ UNCHANGED <<frames, referenceString, stateHistory, isLoaded, speed,
                   totalHits, totalFaults, framesInput, refStringInput,
                   stats, alert>>

SetSpeed(s) ==
    /\ speed' = s
    /\ IF isPlaying
       THEN LET rest == timers \ {playInterval}
            IN  /\ Cardinality(rest) < MaxTimers
                /\ playInterval' = FreshTimer(rest)
                /\ timers' = rest \cup {FreshTimer(rest)}
       ELSE UNCHANGED <<playInterval, timers>>
    /\ UNCHANGED <<frames, referenceString, stateHistory, currentStep,
                   isLoaded, isPlaying, totalHits, totalFaults,
                   framesInput, refStringInput, disabled, stats, alert>>

\* the timer callback that goes on counting at the last step
TickNoStop(t) ==
    /\ t \in timers
    /\ IF currentStep >= Len(stateHistory) - 1
       THEN UNCHANGED <<stateVars, pageVars>>
       ELSE /\ currentStep' = currentStep + 1
            /\ stats' = RenderCurrentStep(stats, currentStep + 1, stateHistory)
            /\ UNCHANGED <<frames, referenceString, stateHistory, isLoaded,
                           isPlaying, playInterval, speed, totalHits,
                           totalFaults, framesInput, refStringInput, timers,
                           disabled, alert>>

\* the callback of a live interval timer
Tick(t) ==
    /\ t \in timers
    /\ IF currentStep >= Len(stateHistory) - 1
       THEN PauseAutoPlay
       ELSE /\ currentStep' = currentStep + 1
            /\ stats' = RenderCurrentStep(stats, currentStep + 1, stateHistory)
            /\ UNCHANGED <<frames, referenceString, stateHistory, isLoaded,
                           isPlaying, playInterval, speed, totalHits,
                           totalFaults, framesInput, refStringInput, timers,
                           disabled, alert>>

\* the user replaces the text of the input fields
TypeInput(framesTexts, refTexts) ==
    /\ framesInput' \in framesTexts
    /\ refStringInput' \in refTexts
    /\ UNCHANGED <<stateVars, timers, disabled, stats, alert>>

(***************************************************************************)
(* Events: a click reaches its handler only while the button is enabled;   *)
(* the Example, Load, Reset and speed buttons are never disabled; a key    *)
(* reaches its handler whenever a string is loaded.                        *)
(***************************************************************************)
ClickExample == LoadExampleString
ClickLoad == LoadAndValidate
ClickReset == ResetSimulator
ClickStart == ~disabled.startBtn /\ StartSimulation
ClickPrev == ~disabled.prevBtn /\ PreviousStep
ClickNext == ~disabled.nextBtn /\ NextStep
ClickPlay == ~disabled.playBtn /\ StartAutoPlay
ClickPause == ~disabled.pauseBtn /\ PauseAutoPlay
ClickSpeed == \E s \in Speeds : SetSpeed(s)
KeyArrowLeft == isLoaded /\ PreviousStep
KeyArrowRight == isLoaded /\ NextStep
KeySpace == isLoaded /\ IF isPlaying THEN PauseAutoPlay ELSE StartAutoPlay
TimerTick == \E t \in timers : Tick(t)
Type == TypeInput(UiFramesTexts, UiRefTexts)

Next ==
    \/ Type /\ UNCHANGED memo
    \/ ClickLoad /\ UNCHANGED memo
    \/ ClickReset /\ UNCHANGED memo
    \/ ClickStart /\ UNCHANGED memo
    \/ ClickPrev /\ UNCHANGED memo
    \/ ClickNext /\ UNCHANGED memo
    \/ ClickPlay /\ UNCHANGED memo
    \/ ClickPause /\ UNCHANGED memo
    \/ ClickSpeed /\ UNCHANGED memo
    \/ KeyArrowLeft /\ UNCHANGED memo
    \/ KeyArrowRight /\ UNCHANGED memo
    \/ KeySpace /\ UNCHANGED memo
    \/ TimerTick /\ UNCHANGED memo

Spec == Init /\ [][Next]_vars

(***************************************************************************)
(* The same events with the history variable memo: the inputs and outcome  *)
(* of an earlier successful load, and how far the run has got since:       *)
(*   stage 0  nothing yet                                                  *)
(*   stage 1  other inputs were loaded                                     *)
(*   stage 2  and then playback moved the cursor                           *)
(*   stage 3  and then the remembered inputs were loaded again             *)
(***************************************************************************)
MemoRefTexts == {JoinPages(<<1>>), JoinPages(<<0, 1, 0>>)}
MemoFramesTexts == {<<"1">>, <<"2">>}

InitMemo == InitState /\ framesInput \in MemoFramesTexts /\ refStringInput \in MemoRefTexts

\* the loaded inputs and what buildStateHistory made of them
Outcome ==
    [frames |-> frames, referenceString |-> referenceString,
     stateHistory |-> stateHistory, totalHits |-> totalHits,
     totalFaults |-> totalFaults]

\* the inputs of outcome m are the ones loaded by this step
SameInputs(m) == m.frames = frames' /\ m.referenceString = referenceString'

\* a successful load is remembered, or advances the stage
Remember ==
    IF ~Validate(framesInput, refStringInput).ok
    THEN UNCHANGED memo
    ELSE IF memo = <<>>
    THEN memo' \in {memo, <<[outcome |-> Outcome', stage |-> 0]>>}
    ELSE IF memo[1].stage = 0 /\ ~SameInputs(memo[1].outcome)
    THEN memo' = <<[memo[1] EXCEPT !.stage = 1]>>
    ELSE IF memo[1].stage = 2 /\ SameInputs(memo[1].outcome)
    THEN memo' = <<[memo[1] EXCEPT !.stage = 3]>>
    ELSE UNCHANGED memo

\* a move of the cursor advances stage 1 to stage 2
Track ==
    IF memo # <<>> /\ memo[1].stage = 1 /\ currentStep' # currentStep
    THEN memo' = <<[memo[1] EXCEPT !.stage = 2]>>
    ELSE UNCHANGED memo

NextMemo ==
    \/ TypeInput(MemoFramesTexts, MemoRefTexts) /\ UNCHANGED memo
    \/ ClickLoad /\ Remember
    \/ ClickReset /\ Track
    \/ ClickStart /\ Track
    \/ ClickPrev /\ Track
    \/ ClickNext /\ Track
    \/ ClickPlay /\ Track
    \/ ClickPause /\ Track
    \/ ClickSpeed /\ Track
    \/ KeyArrowLeft /\ Track
    \/ KeyArrowRight /\ Track
    \/ KeySpace /\ Track
    \/ TimerTick /\ Track

SpecMemo == InitMemo /\ [][NextMemo]_vars

\* the core routine alone: the user types once, then loads, loads the
\* example and resets
NextEngine ==
    \/ ClickExample /\ UNCHANGED memo
    \/ ClickLoad /\ UNCHANGED memo
    \/ ClickReset /\ UNCHANGED memo

SpecEngine == InitEngine /\ [][NextEngine]_vars


(***************************************************************************)
(* Properties of the history built by buildStateHistory (SpecEngine).      *)
(***************************************************************************)
Steps == 1..Len(stateHistory)

\* the frame slots and the stack as they stand before step k
FramesBefore(k) ==
    IF k = 1 THEN [j \in 1..frames |-> null] ELSE stateHistory[k - 1].frames
StackBefore(k) == IF k = 1 THEN <<>> ELSE stateHistory[k - 1].stack

Elements(arr) == {arr[j] : j \in 1..Len(arr)}
Resident(framesArr) == Elements(framesArr) \ {null}
HasEmpty(framesArr) == null \in Elements(framesArr)
Top(stack) == stack[Len(stack)]

\* step k faults while no slot is empty
FullFault(k) == stateHistory[k].isFault /\ ~HasEmpty(FramesBefore(k))
\* step k faults while a slot is empty
EmptyFault(k) == stateHistory[k].isFault /\ HasEmpty(FramesBefore(k))

\* C1: a fault with no empty slot replaces the top of the previous step's
\* stack, writes the new page into the slot that held that victim and makes
\* the new page the top of the stack
C1_FullFaultEvictsTop ==
    \A k \in Steps :
        FullFault(k) =>
            LET r == stateHistory[k]
            IN  /\ Len(StackBefore(k)) > 0
                /\ r.replacedPage = Top(StackBefore(k))
                /\ r.newPageIndex \in 0..(frames - 1)
                /\ FramesBefore(k)[r.newPageIndex + 1] = r.replacedPage
                /\ r.frames[r.newPageIndex + 1] = r.page
                /\ Len(r.stack) > 0
                /\ Top(r.stack) = r.page

\* a full fault right after a hit on a page that is not the victim: the
\* victim is not the page referenced last
C1_Witness ==
    \E k \in Steps :
        /\ k > 1
        /\ FullFault(k)
        /\ stateHistory[k - 1].isHit
        /\ stateHistory[k - 1].page # stateHistory[k].replacedPage
        /\ frames >= 2

\* C2: a fault with an empty slot loads the page into the lowest-indexed
\* empty slot, names that slot in newPageIndex, pushes the page on top of
\* the stack and replaces nothing
C2_EmptyFaultLowestSlot ==
    \A k \in Steps :
        EmptyFault(k) =>
            LET r == stateHistory[k]
                b == FramesBefore(k)
            IN  /\ r.newPageIndex \in 0..(frames - 1)
                /\ b[r.newPageIndex + 1] = null
                /\ \A j \in 1..r.newPageIndex : b[j] # null
                /\ r.frames = [b EXCEPT ![r.newPageIndex + 1] = r.page]
                /\ r.stack = Append(StackBefore(k), r.page)
                /\ r.replacedPage = null
                /\ Resident(b) \subseteq Resident(r.frames)

\* a fault into an empty slot other than slot 0 while two slots are empty
C2_Witness ==
    \E k \in Steps :
        /\ EmptyFault(k)
        /\ stateHistory[k].newPageIndex = 1
        /\ Cardinality({j \in 1..frames : FramesBefore(k)[j] = null}) >= 2

\* C3: a hit records the frames and the stack of the previous step, in
\* the same order
C3_HitChangesNothing ==
    \A k \in Steps :
        stateHistory[k].isHit =>
            /\ stateHistory[k].frames = FramesBefore(k)
            /\ stateHistory[k].stack = StackBefore(k)

\* a hit on a page that lies below the top of the stack
C3_Witness ==
    \E k \in Steps :
        /\ stateHistory[k].isHit
        /\ Len(StackBefore(k)) >= 2
        /\ Top(StackBefore(k)) # stateHistory[k].page

\* C4: a step is a hit exactly when its page is in a slot before the step,
\* and a fault otherwise
C4_HitIffResident ==
    \A k \in Steps :
        LET r == stateHistory[k]
        IN  /\ r.isHit <=> r.page \in Resident(FramesBefore(k))
            /\ r.isFault <=> ~r.isHit

\* a history with a fault and with a hit on the page in slot 0
C4_Witness ==
    /\ \E k \in Steps : stateHistory[k].isFault
    /\ \E k \in Steps : stateHistory[k].isHit /\ FramesBefore(k)[1] = stateHistory[k].page

\* C5: in every record the pages in the frames are the pages on the stack,
\* there are at most `frames` of them, and no page is on the stack twice
C5_StackMatchesFrames ==
    \A k \in Steps :
        LET r == stateHistory[k]
        IN  /\ Resident(r.frames) = Elements(r.stack)
            /\ Len(r.frames) = frames
            /\ Len(r.stack) <= frames
            /\ Cardinality(Elements(r.stack)) = Len(r.stack)

\* a record after a replacement, with every slot in use
C5_Witness ==
    \E k \in Steps :
        /\ FullFault(k)
        /\ Len(stateHistory[k].stack) = frames
        /\ frames >= 2

\* C6: one record per reference, in input order: record k has step k and
\* the k-th page
C6_OneRecordPerReference ==
    /\ Len(stateHistory) = Len(referenceString)
    /\ \A k \in Steps :
           /\ stateHistory[k].step = k
           /\ stateHistory[k].page = referenceString[k]

C6_Witness == isLoaded /\ Len(stateHistory) = MaxLen

\* what the spec lists for a record: outcome, slot, replaced page
Summary(r) ==
    [hit |-> r.isHit, fault |-> r.isFault, page |-> r.page,
     slot |-> r.newPageIndex, replaced |-> r.replacedPage]
Fault(page, slot, replaced) ==
    [hit |-> FALSE, fault |-> TRUE, page |-> page, slot |-> slot,
     replaced |-> replaced]
Hit(page) ==
    [hit |-> TRUE, fault |-> FALSE, page |-> page, slot |-> -1,
     replaced |-> null]

ExampleLoaded == isLoaded /\ referenceString = ExamplePages /\ frames = 3

\* C7: the example 7 0 1 2 0 3 0 4 with 3 frames gives the listed steps,
\* 6 faults, 2 hits and 4 on top of the final stack
C7_Example ==
    ExampleLoaded =>
        /\ [k \in Steps |-> Summary(stateHistory[k])] =
               <<Fault(7, 0, null), Fault(0, 1, null), Fault(1, 2, null),
                 Fault(2, 2, 1), Hit(0), Fault(3, 2, 2), Hit(0),
                 Fault(4, 2, 3)>>
        /\ totalFaults = 6
        /\ totalHits = 2
        /\ Top(stateHistory[8].stack) = 4

C7_Witness == ExampleLoaded /\ Len(stateHistory) = 8

\* the history buildStateHistory makes of the first m references
HistoryOfPrefix(m) ==
    BuildStateHistory([frames |-> frames,
                       referenceString |-> SubSeq(referenceString, 1, m),
                       stateHistory |-> <<>>,
                       totalHits |-> 0,
                       totalFaults |-> 0]).stateHistory

\* C9: the history of every prefix of the reference string is the prefix
\* of the history: later steps alter no earlier record
C9_PrefixHistory ==
    isLoaded =>
        \A m \in 0..Len(referenceString) :
            HistoryOfPrefix(m) = SubSeq(stateHistory, 1, m)

\* a history whose last step changes the frames and the stack
C9_Witness ==
    /\ isLoaded
    /\ Len(stateHistory) >= 3
    /\ FullFault(Len(stateHistory))

\* C10: with one frame the first reference faults into slot 0 and replaces
\* nothing; a later reference to another page than the resident one faults,
\* replaces the resident page and lands in slot 0; a later reference to the
\* resident page hits
C10_OneFrame ==
    (isLoaded /\ frames = 1) =>
        \A k \in Steps :
            LET r == stateHistory[k]
            IN  IF k = 1
                THEN r.isFault /\ r.newPageIndex = 0 /\ r.replacedPage = null
                     /\ r.frames = <<r.page>>
                ELSE LET resident == stateHistory[k - 1].frames[1]
                     IN  IF r.page = resident
                         THEN r.isHit /\ ~r.isFault /\ r.frames = <<resident>>
                         ELSE r.isFault /\ ~r.isHit
                              /\ r.replacedPage = resident
                              /\ r.newPageIndex = 0
                              /\ r.frames = <<r.page>>

\* one frame, with a replacement and with a hit
C10_Witness ==
    /\ isLoaded
    /\ frames = 1
    /\ \E k \in Steps : k > 1 /\ stateHistory[k].isFault
    /\ \E k \in Steps : stateHistory[k].isHit

(***************************************************************************)
(* Determinism of the build (SpecMemo).                                    *)
(***************************************************************************)

\* C8: whenever the inputs of the remembered load are the loaded ones, the
\* history and the totals are the remembered ones, whatever was loaded or
\* played in between
C8_SameInputsSameOutcome ==
    (isLoaded /\ memo # <<>> /\ memo[1].outcome.frames = frames
              /\ memo[1].outcome.referenceString = referenceString) =>
        /\ stateHistory = memo[1].outcome.stateHistory
        /\ totalHits = memo[1].outcome.totalHits
        /\ totalFaults = memo[1].outcome.totalFaults

\* the remembered inputs were loaded again after other inputs were loaded
\* and the cursor moved
C8_Witness ==
    /\ isLoaded
    /\ memo # <<>>
    /\ memo[1].stage = 3
    /\ memo[1].outcome.frames = frames
    /\ memo[1].outcome.referenceString = referenceString
    /\ Len(stateHistory) >= 3

(***************************************************************************)
(* Loading (Spec).                                                         *)
(***************************************************************************)

\* C11: a loaded empty reference string has an empty history, no hits and
\* no faults, and its hit ratio is shown as 0%, before and after Start
C11_EmptyReference ==
    (isLoaded /\ referenceString = <<>>) =>
        /\ stateHistory = <<>>
        /\ totalHits = 0
        /\ totalFaults = 0
        /\ stats.totalHits = 0
        /\ stats.totalFaults = 0
        /\ stats.totalSteps = 0
        /\ stats.hitRatio = <<"0", "%">>

\* an empty reference string is loaded and the simulation is started on it
C11_Witness == isLoaded /\ referenceString = <<>> /\ currentStep = 0

\* the frame count typed into the input field is a number below 1
TypedFrameCountBelowOne ==
    ~ParseInt(framesInput).isNaN /\ ParseInt(framesInput).value < 1

\* C12: no step ever leaves a frame count below 1 or a record of fewer than
\* one frame in the state, and a load with a typed frame count below 1 ends
\* in the frame-count error and leaves the state object and the statistics
\* as they were: no record is produced
C12_InvalidFrameCount ==
    [][/\ frames' >= 1
       /\ \A k \in 1..Len(stateHistory') : Len(stateHistory'[k].frames) >= 1
       /\ (ClickLoad /\ TypedFrameCountBelowOne) =>
              /\ alert' = ShowAlert("frames", "error")
              /\ UNCHANGED <<stateVars, stats, timers, disabled>>]_vars

\* the load of frame count 0 was refused while a history was held
C12_Witness ==
    /\ alert = ShowAlert("frames", "error")
    /\ framesInput = <<"0">>
    /\ isLoaded
    /\ Len(stateHistory) >= 2

\* the history buildStateHistory makes of the typed input from scratch
HistoryOfInput(v) ==
    BuildStateHistory([frames |-> v.frames,
                       referenceString |-> v.pages,
                       stateHistory |-> <<>>,
                       totalHits |-> 0,
                       totalFaults |-> 0])

\* C13: a rejected load reports an error and leaves frames,
\* referenceString, stateHistory, isLoaded, currentStep and the totals as
\* they were; an accepted load stores the complete history of the new input
C13_NoPartialLoad ==
    [][ClickLoad =>
           LET v == Validate(framesInput, refStringInput)
           IN  IF ~v.ok
               THEN /\ alert'.type = "error"
                    /\ UNCHANGED <<frames, referenceString, stateHistory,
                                   isLoaded, currentStep, totalHits,
                                   totalFaults>>
               ELSE /\ alert'.type = "success"
                    /\ isLoaded'
                    /\ frames' = v.frames
                    /\ referenceString' = v.pages
                    /\ Len(stateHistory') = Len(v.pages)
                    /\ stateHistory' = HistoryOfInput(v).stateHistory
                    /\ totalHits' = HistoryOfInput(v).totalHits
                    /\ totalFaults' = HistoryOfInput(v).totalFaults]_vars

\* a load was rejected for its reference string in the middle of playback,
\* with other valid inputs loaded
C13_Witness ==
    /\ alert.type = "error"
    /\ alert.about \in {"refString", "token"}
    /\ isLoaded
    /\ currentStep >= 1
    /\ ParseInt(framesInput).value # frames

(***************************************************************************)
(* Playback (Spec).                                                        *)
(***************************************************************************)

\* Start was pressed on the history now loaded: startSimulation disables
\* the start button, and only a load enables it again
Started == isLoaded /\ disabled.startBtn

\* C14: currentStep lies in [-1, length - 1] in every reachable state, and
\* in [0, length - 1] once the simulation was started on the loaded history
C14_CursorInRange ==
    /\ currentStep \in -1..(Len(stateHistory) - 1)
    /\ Started => currentStep \in 0..(Len(stateHistory) - 1)

\* a load while the cursor stands on the last of three records replaced the
\* history by a shorter one and left the cursor where it was
C14_Witness ==
    /\ isLoaded
    /\ ~Started
    /\ Len(stateHistory) = 1
    /\ currentStep = 2

\* C15: nextStep and a timer tick add 1 to currentStep when it is below
\* length - 1 and otherwise leave it; previousStep subtracts 1 when it is
\* above 0 and otherwise leaves it
C15_OneStepAtATime ==
    [][/\ (ClickNext \/ KeyArrowRight \/ TimerTick) =>
              currentStep' = IF currentStep < Len(stateHistory) - 1
                             THEN currentStep + 1
                             ELSE currentStep
       /\ (ClickPrev \/ KeyArrowLeft) =>
              currentStep' = IF currentStep > 0
                             THEN currentStep - 1
                             ELSE currentStep]_vars

\* the cursor was stepped by hand to the last of three records
C15_Witness ==
    /\ Started
    /\ Len(stateHistory) = 3
    /\ currentStep = 2
    /\ ~isPlaying
    /\ timers = {}
    /\ ~disabled.prevBtn

\* start, next, previous, play, pause, speed change, their keyboard
\* shortcuts and the timer tick
Playback ==
    \/ ClickStart
    \/ ClickPrev
    \/ ClickNext
    \/ ClickPlay
    \/ ClickPause
    \/ ClickSpeed
    \/ KeyArrowLeft
    \/ KeyArrowRight
    \/ KeySpace
    \/ TimerTick

\* C16: playback leaves stateHistory, referenceString, the frame count, the
\* totals and isLoaded unchanged; the history, the reference string and the
\* frame count change only in an accepted load, to the complete history of
\* the new input, or in a reset, to the empty history
C16_HistoryImmutable ==
    [][/\ Playback => UNCHANGED <<stateHistory, referenceString, frames,
                                  totalHits, totalFaults, isLoaded>>
       /\ <<stateHistory, referenceString, frames>>' #
              <<stateHistory, referenceString, frames>> =>
              \/ /\ ClickLoad
                 /\ Validate(framesInput, refStringInput).ok
                 /\ stateHistory' =
                        HistoryOfInput(Validate(framesInput,
                                                refStringInput)).stateHistory
              \/ /\ ClickReset
                 /\ stateHistory' = <<>>
                 /\ referenceString' = <<>>]_vars

\* auto-play at another speed stands in the middle of a history of three
\* records after the cursor had been moved
C16_Witness ==
    /\ isLoaded
    /\ Len(stateHistory) = 3
    /\ isPlaying
    /\ currentStep = 1
    /\ speed = 150
    /\ stats.currentStep = 2

(***************************************************************************)
(* Statistics over prefixes and the effect of a fault (SpecEngine).        *)
(***************************************************************************)

\* the numbers of Hit and Fault records among the first n records
HitsAmong(n) == Cardinality({k \in 1..n : stateHistory[k].isHit})
FaultsAmong(n) == Cardinality({k \in 1..n : stateHistory[k].isFault})

\* C17: for every cursor position c in [-1, N - 1] the hits and faults
\* renderStats computes are the numbers of Hit and Fault records among the
\* first c + 1 records and sum to c + 1; at c = N - 1 they are the
\* totalHits and totalFaults of buildStateHistory, which sum to N
C17_PrefixCounts ==
    isLoaded =>
        \A c \in -1..(Len(stateHistory) - 1) :
            LET shown == RenderStats(c, stateHistory)
            IN  /\ shown.totalHits = HitsAmong(c + 1)
                /\ shown.totalFaults = FaultsAmong(c + 1)
                /\ shown.totalHits + shown.totalFaults = c + 1
                /\ c = Len(stateHistory) - 1 =>
                       /\ shown.totalHits = totalHits
                       /\ shown.totalFaults = totalFaults
                       /\ totalHits + totalFaults = Len(stateHistory)

\* a history with a hit before its end and faults on both sides of it, so
\* that the counts differ from prefix to prefix
C17_Witness ==
    /\ isLoaded
    /\ Len(stateHistory) >= 3
    /\ \E k \in 2..(Len(stateHistory) - 1) :
           /\ stateHistory[k].isHit
           /\ stateHistory[k + 1].isFault
    /\ RenderStats(1, stateHistory).totalHits < totalHits + totalFaults

\* C19: after a Fault step the slot newPageIndex holds the requested page,
\* which it did not hold before, every other slot holds what it held before
\* the step, and the stack below its top is the previous stack, less its
\* top, the victim, when no slot was empty
C19_FaultChangesOneSlot ==
    \A k \in Steps :
        stateHistory[k].isFault =>
            LET r == stateHistory[k]
                b == FramesBefore(k)
                sb == StackBefore(k)
                below == SubSeq(r.stack, 1, Len(r.stack) - 1)
            IN  /\ r.newPageIndex \in 0..(frames - 1)
                /\ Len(r.frames) = Len(b)
                /\ r.frames[r.newPageIndex + 1] = r.page
                /\ b[r.newPageIndex + 1] # r.page
                /\ \A j \in 1..Len(b) :
                       j # r.newPageIndex + 1 => r.frames[j] = b[j]
                /\ Len(r.stack) >= 1
                /\ below = IF FullFault(k)
                           THEN SubSeq(sb, 1, Len(sb) - 1)
                           ELSE sb
                /\ FullFault(k) => Top(sb) = r.replacedPage

\* a second fault with no empty slot among two frames or more: the other
\* slots and the stack below the top are kept, the previous newcomer leaves
C19_Witness ==
    \E k \in Steps :
        /\ FullFault(k)
        /\ frames >= 2
        /\ Len(stateHistory[k].stack) = frames
        /\ \E j \in 1..(k - 1) : FullFault(j)

(***************************************************************************)
(* Auto-play and its timers.                                               *)
(***************************************************************************)

\* C18: at most one interval timer is live, it is the one recorded in
\* playInterval, and isPlaying is true exactly when playInterval is set
C18_OneLiveTimer ==
    /\ Cardinality(timers) <= 1
    /\ timers = IF playInterval = null THEN {} ELSE {playInterval}
    /\ isPlaying <=> playInterval # null

\* auto-play is paused and nothing is recorded in playInterval, yet a timer
\* is live and has moved the cursor off the step the simulation started at
C18_Witness ==
    /\ ~isPlaying
    /\ playInterval = null
    /\ timers # {}
    /\ ~disabled.playBtn
    /\ disabled.pauseBtn
    /\ currentStep >= 1

\* the callback of a live interval timer runs
AutoTick == TimerTick /\ UNCHANGED memo

\* Auto-play with no user action intervening: the user acts only while
\* auto-play is off, and a live interval timer keeps firing.
NextAutoPlay ==
    \/ ~isPlaying /\ Type /\ UNCHANGED memo
    \/ ~isPlaying /\ ClickLoad /\ UNCHANGED memo
    \/ ~isPlaying /\ ClickReset /\ UNCHANGED memo
    \/ ~isPlaying /\ ClickStart /\ UNCHANGED memo
    \/ ~isPlaying /\ ClickPrev /\ UNCHANGED memo
    \/ ~isPlaying /\ ClickNext /\ UNCHANGED memo
    \/ ~isPlaying /\ ClickPlay /\ UNCHANGED memo
    \/ ~isPlaying /\ ClickSpeed /\ UNCHANGED memo
    \/ ~isPlaying /\ KeyArrowLeft /\ UNCHANGED memo
    \/ ~isPlaying /\ KeyArrowRight /\ UNCHANGED memo
    \/ ~isPlaying /\ KeySpace /\ UNCHANGED memo
    \/ AutoTick

SpecAutoPlay == Init /\ [][NextAutoPlay]_vars /\ WF_vars(AutoTick)

\* auto-play has stopped itself on the last step
StoppedAtEnd ==
    /\ ~isPlaying
    /\ playInterval = null
    /\ timers = {}
    /\ currentStep = Len(stateHistory) - 1

\* C20: auto-play on a non-empty history, left alone, eventually stands on
\* the last step with isPlaying false and the timer cleared; started with
\* the cursor on the last step or beyond it first sets the cursor to -1, and
\* from -1 the first step is shown next
C20_AutoPlayReachesEnd ==
    /\ (isPlaying /\ Len(stateHistory) > 0) ~> StoppedAtEnd
    /\ (isPlaying /\ Len(stateHistory) > 0 /\ currentStep = -1)
           ~> (isPlaying /\ currentStep = 0)
    /\ [][((ClickPlay \/ KeySpace) /\ ~isPlaying
               /\ currentStep >= Len(stateHistory) - 1) =>
              (currentStep' = -1 /\ isPlaying')]_vars

\* auto-play was started on the last of three steps of a started simulation
\* and has set the cursor back to -1
C20_Witness ==
    /\ isPlaying
    /\ Started
    /\ Len(stateHistory) = 3
    /\ currentStep = -1
    /\ stats.currentStep = 3

(***************************************************************************)
(* Reset (Spec).                                                           *)
(***************************************************************************)

\* the alert of resetSimulator is the last one shown: the simulator was
\* reset and no load was tried since
ResetDone == alert = ShowAlert("reset", "info")

\* C21: after resetSimulator, and until a new load, the simulator is not
\* loaded and not playing, no timer is live, referenceString and
\* stateHistory are empty, currentStep is -1 and the totals are zero
C21_ResetClearsAll ==
    ResetDone =>
        /\ ~isLoaded
        /\ ~isPlaying
        /\ playInterval = null
        /\ timers = {}
        /\ referenceString = <<>>
        /\ stateHistory = <<>>
        /\ currentStep = -1
        /\ totalHits = 0
        /\ totalFaults = 0

\* resetSimulator has just run, every button it disables is disabled, and a
\* timer is still live
C21_Witness ==
    /\ ResetDone
    /\ ~isLoaded
    /\ ~isPlaying
    /\ playInterval = null
    /\ \A b \in Buttons : disabled[b]
    /\ timers # {}

(***************************************************************************)
(* Shape of the frames and the stack, and the victim lookup (SpecEngine).  *)
(***************************************************************************)

\* C22: in every record the occupied frame slots are a prefix of the slot
\* indices, and the stack read bottom-to-top is that prefix: slot j holds
\* stack element j for every j up to the length of the stack, and every
\* slot above is empty
C22_StackIsFramePrefix ==
    \A k \in Steps :
        LET r == stateHistory[k]
        IN  /\ Len(r.frames) = frames
            /\ Len(r.stack) <= frames
            /\ \A j \in 1..Len(r.stack) :
                   r.frames[j] # null /\ r.stack[j] = r.frames[j]
            /\ \A j \in (Len(r.stack) + 1)..frames : r.frames[j] = null

\* a record of three frames with two occupied and one empty, taken after a
\* hit
C22_Witness ==
    \E k \in Steps :
        /\ frames = 3
        /\ Len(stateHistory[k].stack) = 2
        /\ stateHistory[k].isHit

\* C23: a step that finds every slot occupied leaves every slot occupied
\* and the slots 0 .. frames - 2 as they were, and every eviction names
\* the slot frames - 1
C23_EvictionsHitLastSlot ==
    \A k \in Steps :
        LET r == stateHistory[k]
            b == FramesBefore(k)
        IN  /\ ~HasEmpty(b) =>
                   /\ ~HasEmpty(r.frames)
                   /\ \A j \in 1..(frames - 1) : r.frames[j] = b[j]
            /\ FullFault(k) =>
                   /\ r.replacedIndex = frames - 1
                   /\ r.newPageIndex = frames - 1
                   /\ r.replacedPage = b[frames]

\* two evictions with a hit on a page of a lower slot between them, among
\* two frames or more
C23_Witness ==
    \E k \in Steps :
        /\ frames >= 2
        /\ FullFault(k)
        /\ \E h \in 1..(k - 1) :
               /\ stateHistory[h].isHit
               /\ ~HasEmpty(FramesBefore(h))
               /\ stateHistory[h].page # FramesBefore(h)[frames]
               /\ \E j \in 1..(h - 1) : FullFault(j)

\* the slot indices of the loaded frame count
SlotIndices == 0..(frames - 1)

\* C24 as stated: the victim lookup never fails, replacedIndex and
\* newPageIndex are slot indices on every Fault record, and on every Hit
\* record replacedPage is none and both indices are -1
C24_AsStated ==
    \A k \in Steps :
        LET r == stateHistory[k]
        IN  /\ FullFault(k) =>
                   /\ Len(StackBefore(k)) > 0
                   /\ r.replacedPage \in Resident(FramesBefore(k))
            /\ r.isFault =>
                   /\ r.replacedIndex \in SlotIndices
                   /\ r.newPageIndex \in SlotIndices
            /\ r.isHit =>
                   /\ r.replacedPage = null
                   /\ r.replacedIndex = -1
                   /\ r.newPageIndex = -1

\* C24, amended: whenever a fault finds no empty slot the stack is
\* non-empty, the popped page is found in the frames and replacedIndex is a
\* slot index; newPageIndex is a slot index on every Fault record; on a
\* fault into an empty slot, as on every Hit record, replacedPage is none
\* and replacedIndex is -1, and on a Hit record newPageIndex is -1 too
C24_VictimLookup ==
    \A k \in Steps :
        LET r == stateHistory[k]
        IN  /\ FullFault(k) =>
                   /\ Len(StackBefore(k)) > 0
                   /\ r.replacedPage = Top(StackBefore(k))
                   /\ r.replacedPage \in Resident(FramesBefore(k))
                   /\ r.replacedIndex \in SlotIndices
                   /\ FramesBefore(k)[r.replacedIndex + 1] = r.replacedPage
            /\ r.isFault => r.newPageIndex \in SlotIndices
            /\ EmptyFault(k) =>
                   /\ r.replacedPage = null
                   /\ r.replacedIndex = -1
            /\ r.isHit =>
                   /\ r.replacedPage = null
                   /\ r.replacedIndex = -1
                   /\ r.newPageIndex = -1

\* a history with a fault into an empty slot, a hit and a fault that finds
\* no empty slot
C24_Witness ==
    /\ \E k \in Steps : EmptyFault(k) /\ stateHistory[k].replacedIndex = -1
    /\ \E k \in Steps : stateHistory[k].isHit
    /\ \E k \in Steps : FullFault(k) /\ stateHistory[k].replacedIndex >= 1

====
